---- MODULE Spec2Model ----
(***************************************************************************)
(* Model of pandas-example.ipynb.  The notebook binds the names A and B    *)
(* three times: to two labelled Series, to two DataFrames filled from a    *)
(* seeded random generator, and to a two-dimensional array; it combines    *)
(* them with Series.add, DataFrame.add and array subtraction.  The         *)
(* operators below model the library routines those cells call (index      *)
(* join, reindexing, fill substitution, elementwise arithmetic,            *)
(* broadcasting).  The Series sum and the array difference displayed under *)
(* the cells are reproduced by the model.                                  *)
(***************************************************************************)
EXTENDS Integers, Sequences, FiniteSets, TLC

VARIABLES
    kind,      \* which binding of A and B is live: "series", "frames", "array"
    A,         \* the object bound to the name A
    B,         \* the object bound to the name B
    call,      \* the last executed operation and its arguments
    aligned,   \* the two operands as the last add call aligned them
    Out,       \* the value the last executed operation displayed
    raised     \* the exception the last executed operation raised, or "none"

vars == <<kind, A, B, call, aligned, Out, raised>>

----------------------------------------------------------------------------
(* Bounds of the model *)

MaxLen == 2      \* longest Series drawn as an input
MaxLabel == 1    \* Series labels are drawn from 0..MaxLabel
MaxFill == 1     \* Series fill values are drawn from 0..MaxFill
MaxRows == 3     \* most rows of a DataFrame or array drawn as an input
MaxSeed == 1     \* seeds of the random generator are drawn from 0..MaxSeed
MaxCols == 4     \* most columns of an array drawn as an input

ColLabels == {"A", "B", "C"}

----------------------------------------------------------------------------
(* Numbers.  An operand holds integers as entered, or NaN.  Arithmetic     *)
(* with alignment or a fill value is done in float64; a float is held in   *)
(* units of 1/Scale, which is exact for every mean the model can form.     *)

RECURSIVE gcd(_, _)
gcd(a, b) == IF b = 0 THEN a ELSE gcd(b, a % b)

RECURSIVE lcm_upto(_)
lcm_upto(n) == IF n <= 1 THEN 1
               ELSE LET l == lcm_upto(n - 1) IN (l * n) \div gcd(l, n)

Scale == lcm_upto(MaxRows * Cardinality(ColLabels))

NaN == <<>>
Num(n) == <<n>>
isna(x) == x = NaN
val(x) == x[1]
Float(n) == Num(n * Scale)
astype_float(x) == IF isna(x) THEN NaN ELSE Float(val(x))

NoFill == [given |-> FALSE, value |-> NaN]
Fill(x) == [given |-> TRUE, value |-> x]
NoOut == [type |-> "none"]
NoCall == [op |-> "none", fill_value |-> NoFill, row |-> 0]

Range(s) == {s[i] : i \in 1..Len(s)}
IsUnique(s) == \A i, j \in 1..Len(s) : s[i] = s[j] => i = j

\* natural ordering of integer labels and of one-letter column labels
IntOrd == [l \in Int |-> l]
StrOrd == [c \in ColLabels |-> CASE c = "A" -> 65 [] c = "B" -> 66 [] c = "C" -> 67]

\* the labels of S in ascending order (the labels of an index are unique)
sort_values(S, ord) ==
    [i \in 1..Cardinality(S) |->
        CHOOSE x \in S : Cardinality({y \in S : ord[y] < ord[x]}) = i - 1]

----------------------------------------------------------------------------
(* Index.join(other, how='outer') of two indexes with unique labels: an    *)
(* equal index is returned as it is and otherwise the result is the sorted *)
(* union.  When one index is empty the releases of the library differ: the *)
(* other index comes back as it is, or sorted (sort_empty).                *)

\* faulty variant: the union in order of appearance, never sorted
Index_join_unsorted(left, right, ord, sort_empty) ==
    IF left = right THEN left
    ELSE left \o SelectSeq(right, LAMBDA l : l \notin Range(left))

\* faulty variant: an inner join, which keeps the common labels only
Index_join_inner(left, right, ord, sort_empty) ==
    IF left = right THEN left
    ELSE sort_values(Range(left) \cap Range(right), ord)

Index_join(left, right, ord, sort_empty) ==
    IF left = right THEN left
    ELSE IF Len(right) = 0 /\ ~sort_empty THEN left
    ELSE IF Len(left) = 0 /\ ~sort_empty THEN right
    ELSE sort_values(Range(left) \cup Range(right), ord)

\* the behaviours of the join the installed release can have for two indexes
JoinVariants(left, right) ==
    IF Len(left) = 0 \/ Len(right) = 0 THEN BOOLEAN ELSE {FALSE}

get_loc(index, l) == CHOOSE i \in 1..Len(index) : index[i] = l

\* the value of (index, values) at label l, NaN where the label is absent
take(index, values, l) ==
    IF l \in Range(index) THEN values[get_loc(index, l)] ELSE NaN

\* the values of (index, values) at the labels of target
RECURSIVE reindex(_, _, _)
reindex(index, values, target) ==
    IF target = <<>> THEN <<>>
    ELSE <<take(index, values, Head(target))>> \o reindex(index, values, Tail(target))

\* faulty variant: the fill value is never substituted
fill_left_never(x, y, fill) == x

\* faulty variant: the fill value replaces a missing value also when the
\* other side is missing
fill_left_always(x, y, fill) ==
    IF fill.given /\ isna(x) THEN fill.value ELSE x

\* ops.fill_binop on one pair of values: a side that is missing while the
\* other is not gets the fill value; both missing stays missing
fill_left(x, y, fill) ==
    IF fill.given /\ isna(x) /\ ~isna(y) THEN fill.value ELSE x

\* faulty variant: a missing value counts as zero
add_nan_as_zero(x, y) ==
    Num((IF isna(x) THEN 0 ELSE val(x)) + (IF isna(y) THEN 0 ELSE val(y)))

\* elementwise addition of two floats: NaN where either side is NaN
add(x, y) == IF isna(x) \/ isna(y) THEN NaN ELSE Num(val(x) + val(y))

\* faulty variant: a pair missing on both sides yields the fill value
add_filled_both(x, y, fill) ==
    IF fill.given /\ isna(x) /\ isna(y) THEN fill.value
    ELSE LET fx == IF fill.given /\ isna(x) THEN fill.value ELSE astype_float(x)
             fy == IF fill.given /\ isna(y) THEN fill.value ELSE astype_float(y)
         IN IF isna(fx) \/ isna(fy) THEN NaN ELSE Num(val(fx) + val(fy))

\* the flex arithmetic on one aligned pair of values
add_filled(x, y, fill) ==
    add(fill_left(astype_float(x), astype_float(y), fill),
        fill_left(astype_float(y), astype_float(x), fill))

\* the flex arithmetic on two aligned arrays of values
RECURSIVE add_values(_, _, _)
add_values(left, right, fill) ==
    IF left = <<>> THEN <<>>
    ELSE <<add_filled(Head(left), Head(right), fill)>>
         \o add_values(Tail(left), Tail(right), fill)

\* the array fill_binop computes on: left with the fill value substituted
RECURSIVE filled_values(_, _, _)
filled_values(left, right, fill) ==
    IF left = <<>> THEN <<>>
    ELSE <<fill_left(Head(left), Head(right), fill)>>
         \o filled_values(Tail(left), Tail(right), fill)

\* faulty variant: the fill value is written into the operand's own array
values_after_fill_inplace(values, filled) == filled

\* fill_binop writes the fill value into a copy of its input (left.copy()),
\* so the array an operand holds keeps the values it had
values_after_fill(values, filled) == values

----------------------------------------------------------------------------
(* Series *)

Series(index, values) == [type |-> "Series", index |-> index, values |-> values]

\* faulty variant: operands with equal indexes are joined and sorted, too
Series_align_always_joins(self, other, sort_empty) ==
    LET join_index == sort_values(Range(self.index) \cup Range(other.index), IntOrd)
    IN <<Series(join_index, reindex(self.index, self.values, join_index)),
         Series(join_index, reindex(other.index, other.values, join_index))>>

\* Series.align(other, join='outer'): both operands over the joined index;
\* operands with equal indexes are returned as they are
Series_align(self, other, sort_empty) ==
    IF self.index = other.index THEN <<self, other>>
    ELSE LET join_index == Index_join(self.index, other.index, IntOrd, sort_empty)
         IN <<Series(join_index, reindex(self.index, self.values, join_index)),
              Series(join_index, reindex(other.index, other.values, join_index))>>

\* the operand obj as a call leaves it: when the indexes were equal the array
\* that was filled is the operand's own
Series_after(obj, that, same, fill) ==
    IF same /\ fill.given
    THEN Series(obj.index,
                values_after_fill(obj.values, filled_values(obj.values, that, fill)))
    ELSE obj

\* Series.add(other, fill_value): the result, the aligned operands, and the
\* operands as the call leaves them
Series_add(self, other, fill, sort_empty) ==
    LET al == Series_align(self, other, sort_empty)
    IN [result |-> Series(al[1].index, add_values(al[1].values, al[2].values, fill)),
        aligned |-> al,
        self |-> Series_after(self, other.values, self.index = other.index, fill),
        other |-> Series_after(other, self.values, self.index = other.index, fill)]

----------------------------------------------------------------------------
(* Series inputs: pd.Series(values, index=labels) *)

Labels == 0..MaxLabel
AValues == {NaN, Num(6)}
BValues == {NaN, Num(3)}
FillValues == {NoFill} \cup {Fill(Float(f)) : f \in 0..MaxFill}

Indexes == {s \in UNION {[1..n -> Labels] : n \in 0..MaxLen} : IsUnique(s)}
SeriesOver(V) ==
    UNION {{Series(ix, vs) : vs \in [1..Len(ix) -> V]} : ix \in Indexes}

\* the Series of the notebook
NotebookA == Series(<<0, 1, 2>>, <<Num(2), Num(4), Num(6)>>)
NotebookB == Series(<<1, 2, 3>>, <<Num(1), Num(3), Num(5)>>)

InitSeries ==
    /\ kind = "series"
    /\ \/ A \in SeriesOver(AValues) /\ B \in SeriesOver(BValues)
       \/ A \in SeriesOver(AValues) /\ B = A
       \/ A = NotebookA /\ B = NotebookB
    /\ call = NoCall
    /\ aligned = <<>>
    /\ Out = NoOut
    /\ raised = "none"

\* A.add(B, fill_value=fill), and A.add(B) or A + B when no fill is given
SeriesAdd ==
    /\ kind = "series"
    /\ call.op = "none"
    /\ \E fill \in FillValues, sort_empty \in JoinVariants(A.index, B.index) :
         LET r == Series_add(A, B, fill, sort_empty)
         IN /\ call' = [op |-> "add", fill_value |-> fill, row |-> 0]
            /\ Out' = r.result
            /\ aligned' = r.aligned
            /\ A' = r.self
            /\ B' = r.other
    /\ raised' = "none"
    /\ UNCHANGED kind

----------------------------------------------------------------------------
(* DataFrame *)

DataFrame(index, columns, values) ==
    [type |-> "DataFrame", index |-> index, columns |-> columns, values |-> values]

RangeIndex(n) == [i \in 1..n |-> i - 1]

all_nan(n) == [j \in 1..n |-> NaN]

\* the rows of a frame at the row labels of rows and the column labels of cols
RECURSIVE reindex_rows(_, _, _)
reindex_rows(df, rows, cols) ==
    IF rows = <<>> THEN <<>>
    ELSE <<IF Head(rows) \in Range(df.index)
           THEN reindex(df.columns, df.values[get_loc(df.index, Head(rows))], cols)
           ELSE all_nan(Len(cols))>>
         \o reindex_rows(df, Tail(rows), cols)

\* DataFrame.align(other, join='outer'): each axis is joined unless equal
DataFrame_align(self, other, sort_empty) ==
    LET rows == Index_join(self.index, other.index, IntOrd, sort_empty)
        cols == Index_join(self.columns, other.columns, StrOrd, sort_empty)
    IN <<DataFrame(rows, cols, reindex_rows(self, rows, cols)),
         DataFrame(rows, cols, reindex_rows(other, rows, cols))>>

RECURSIVE add_rows(_, _, _)
add_rows(left, right, fill) ==
    IF left = <<>> THEN <<>>
    ELSE <<add_values(Head(left), Head(right), fill)>>
         \o add_rows(Tail(left), Tail(right), fill)

\* DataFrame.add(other, fill_value)
DataFrame_add(self, other, fill, sort_empty) ==
    LET al == DataFrame_align(self, other, sort_empty)
    IN [result |-> DataFrame(al[1].index, al[1].columns,
                             add_rows(al[1].values, al[2].values, fill)),
        aligned |-> al,
        self |-> self,
        other |-> other]

\* DataFrame.stack(): the values row by row, missing ones dropped
RECURSIVE flatten(_)
flatten(rows) == IF rows = <<>> THEN <<>> ELSE Head(rows) \o flatten(Tail(rows))

stack(df) == SelectSeq(flatten(df.values), LAMBDA x : ~isna(x))

RECURSIVE sum(_)
sum(xs) == IF xs = <<>> THEN 0 ELSE val(Head(xs)) + sum(Tail(xs))

\* Series.mean(): a float; NaN when there is nothing to average
mean(xs) == IF Len(xs) = 0 THEN NaN ELSE Num((sum(xs) * Scale) \div Len(xs))

----------------------------------------------------------------------------
(* DataFrame inputs: pd.DataFrame(rng.randint(low, high, shape), columns)  *)
(* with rng = np.random.RandomState(seed).  A seed fixes the sequence of   *)
(* draws; one generator fills A and then B.                                *)

Seeds == 0..MaxSeed

\* the k-th draw (k = 0, 1, ...) of the generator, before it is brought
\* into a range
random_raw(seed, k) == (37 * k + 11 * seed + 3 * k * k + 5) % 101

randint(seed, k, low, high) == low + (random_raw(seed, k) % (high - low))

\* rng.randint(low, high, (nrows, ncols)) taking the draws from the k0-th on
randint_array(seed, k0, low, high, nrows, ncols) ==
    [i \in 1..nrows |->
        [j \in 1..ncols |-> Num(randint(seed, k0 + (i - 1) * ncols + (j - 1), low, high))]]

ColumnLists ==
    {s \in UNION {[1..n -> ColLabels] : n \in 1..Cardinality(ColLabels)} : IsUnique(s)}

InitFrames ==
    /\ kind = "frames"
    /\ \E seed \in Seeds, nA \in 1..MaxRows, colsA \in ColumnLists :
         /\ A = DataFrame(RangeIndex(nA), colsA,
                          randint_array(seed, 0, 0, 20, nA, Len(colsA)))
         /\ \/ \E nB \in 1..MaxRows, colsB \in ColumnLists :
                 B = DataFrame(RangeIndex(nB), colsB,
                               randint_array(seed, nA * Len(colsA), 0, 10, nB, Len(colsB)))
            \/ B = A
    /\ call = NoCall
    /\ aligned = <<>>
    /\ Out = NoOut
    /\ raised = "none"

\* fill = A.stack().mean(); A.add(B, fill_value=fill), and A.add(B) or A + B
FrameAdd ==
    /\ kind = "frames"
    /\ call.op = "none"
    /\ \E fill \in {NoFill, Fill(mean(stack(A)))},
          sort_empty \in JoinVariants(A.columns, B.columns) :
         LET r == DataFrame_add(A, B, fill, sort_empty)
         IN /\ call' = [op |-> "add", fill_value |-> fill, row |-> 0]
            /\ Out' = r.result
            /\ aligned' = r.aligned
            /\ A' = r.self
            /\ B' = r.other
    /\ raised' = "none"
    /\ UNCHANGED kind

----------------------------------------------------------------------------
(* Arrays: A = rng.randint(10, size=(m, n)); A - A[0] *)

ndarray(values) == [type |-> "ndarray", values |-> values]

\* faulty variant: the row is counted from the end
getitem_from_end(a, r) == a.values[Len(a.values) - r]

\* A[r]: the r-th row, counted from 0
getitem(a, r) == a.values[r + 1]

\* the shape two arrays broadcast to along one axis, 0 when they do not
broadcast_len(m, n) == IF m = n \/ n = 1 THEN m ELSE IF m = 1 THEN n ELSE 0

\* faulty variant: operands of different rank are refused
subtract_same_rank(a, v) == [value |-> NoOut, raised |-> "ValueError"]

\* a - v for a two-dimensional a and a one-dimensional v: v is matched to
\* the last axis of a and subtracted from every row
subtract(a, v) ==
    LET ncols == IF Len(a.values) = 0 THEN 0 ELSE Len(a.values[1])
        w == broadcast_len(ncols, Len(v))
        at(x, j) == IF Len(x) = 1 THEN x[1] ELSE x[j]
    IN IF w = 0 /\ ncols # Len(v)
       THEN [value |-> NoOut, raised |-> "ValueError"]
       ELSE [value |-> ndarray([i \in 1..Len(a.values) |->
                                  [j \in 1..w |-> at(a.values[i], j) - at(v, j)]]),
             raised |-> "none"]

int_array(seed, nrows, ncols) ==
    [i \in 1..nrows |->
        [j \in 1..ncols |-> randint(seed, (i - 1) * ncols + (j - 1), 0, 10)]]

\* the array the notebook displays
NotebookArray == ndarray(<<<<1, 5, 5, 9>>, <<3, 5, 1, 9>>, <<1, 9, 3, 7>>>>)

InitArray ==
    /\ kind = "array"
    /\ \/ \E seed \in Seeds, m \in 1..MaxRows, n \in 1..MaxCols :
            A = ndarray(int_array(seed, m, n))
       \/ A = NotebookArray
    /\ B = NoOut
    /\ call = NoCall
    /\ aligned = <<>>
    /\ Out = NoOut
    /\ raised = "none"

\* A - A[r0]
ArraySub ==
    /\ kind = "array"
    /\ call.op = "none"
    /\ \E r0 \in 0..(Len(A.values) - 1) :
         LET r == subtract(A, getitem(A, r0))
         IN /\ call' = [op |-> "sub", fill_value |-> NoFill, row |-> r0]
            /\ Out' = r.value
            /\ raised' = r.raised
    /\ UNCHANGED <<kind, A, B, aligned>>

----------------------------------------------------------------------------

Init == InitSeries \/ InitFrames \/ InitArray
Next == SeriesAdd \/ FrameAdd \/ ArraySub
Spec == Init /\ [][Next]_vars

----------------------------------------------------------------------------
(* Vocabulary of the properties *)

Added == call.op = "add"
SeriesAdded == kind = "series" /\ Added
FramesAdded == kind = "frames" /\ Added
Subtracted == kind = "array" /\ call.op = "sub"
FillGiven == call.fill_value.given /\ ~isna(call.fill_value.value)
f == call.fill_value.value

Has(index, l) == l \in Range(index)
\* the value an operand stores at a label, as a float, and the value of a result
Stored(s, l) == s.values[CHOOSE i \in 1..Len(s.index) : s.index[i] = l]
At(s, l) == astype_float(Stored(s, l))
StoredCell(df, r, c) ==
    df.values[CHOOSE i \in 1..Len(df.index) : df.index[i] = r]
             [CHOOSE j \in 1..Len(df.columns) : df.columns[j] = c]
Cell(df, r, c) == astype_float(StoredCell(df, r, c))
Plus(x, y) == IF x = NaN \/ y = NaN THEN NaN ELSE Num(x[1] + y[1])

Ascending(s, ord) == \A i, j \in 1..Len(s) : i < j => ord[s[i]] < ord[s[j]]
IsUnion(s, l, r) == Range(s) = Range(l) \cup Range(r) /\ IsUnique(s)

\* C1 as amended, for one axis
JoinedLabels(s, l, r, ord) ==
    /\ IsUnion(s, l, r)
    /\ (l # r /\ Len(l) > 0 /\ Len(r) > 0) => Ascending(s, ord)
    /\ l = r => s = l

----------------------------------------------------------------------------
(* C1 *)

----------------------------------------------------------------------------
(* C2 *)

\* C2 (as stated): with a numeric fill value f, the sum holds the operand's
\* value + f at a label only one operand has and A[l] + B[l] at a label both
\* have, for all Series.
C2_FillAddAllSeries ==
    (SeriesAdded /\ FillGiven) =>
        \A l \in Range(A.index) \cup Range(B.index) :
            /\ Has(A.index, l) /\ Has(B.index, l) => Stored(Out, l) = Plus(At(A, l), At(B, l))
            /\ Has(A.index, l) /\ ~Has(B.index, l) => Stored(Out, l) = Plus(At(A, l), f)
            /\ ~Has(A.index, l) /\ Has(B.index, l) => Stored(Out, l) = Plus(f, At(B, l))

\* C2 (amended): with a numeric fill value f, the sum holds at a label only
\* one operand has that operand's value + f (missing if the stored value is
\* missing); at a label both have it holds A[l] + B[l] when both stored values
\* are numbers, f + the other value when exactly one stored value is missing,
\* and missing when both are.  The Series of the notebook with fill 0 give
\* 2, 5, 9, 5 at the labels 0, 1, 2, 3.
C2_FillAdd ==
    /\ (SeriesAdded /\ FillGiven) =>
         \A l \in Range(A.index) \cup Range(B.index) :
            LET a == IF Has(A.index, l) THEN At(A, l) ELSE NaN
                b == IF Has(B.index, l) THEN At(B, l) ELSE NaN
            IN Stored(Out, l) = IF a # NaN /\ b # NaN THEN Plus(a, b)
                            ELSE IF a # NaN THEN Plus(a, f)
                            ELSE IF b # NaN THEN Plus(f, b)
                            ELSE NaN
    /\ (SeriesAdded /\ A = NotebookA /\ B = NotebookB /\ call.fill_value = Fill(Float(0))) =>
         Out = Series(<<0, 1, 2, 3>>, <<Float(2), Float(5), Float(9), Float(5)>>)

\* A.add(B, fill_value=0) on the Series of the notebook
C2_Witness ==
    /\ SeriesAdded /\ A = NotebookA /\ B = NotebookB
    /\ call.fill_value = Fill(Float(0))
    /\ Out.values = <<Float(2), Float(5), Float(9), Float(5)>>

----------------------------------------------------------------------------
(* C3 *)

\* C3: without a fill value the sum is missing at every label only one
\* operand has, and is the number A[l] + B[l] at every label both have with
\* two stored numbers.
C3_NoFillAdd ==
    (SeriesAdded /\ ~call.fill_value.given) =>
        \A l \in Range(A.index) \cup Range(B.index) :
            /\ ~(Has(A.index, l) /\ Has(B.index, l)) => Stored(Out, l) = NaN
            /\ (Has(A.index, l) /\ Has(B.index, l) /\ At(A, l) # NaN /\ At(B, l) # NaN) =>
                  Stored(Out, l) = Num(At(A, l)[1] + At(B, l)[1])

\* A + B on the Series of the notebook
C3_Witness ==
    /\ SeriesAdded /\ A = NotebookA /\ B = NotebookB
    /\ ~call.fill_value.given
    /\ Out.values = <<NaN, Float(5), Float(9), NaN>>

----------------------------------------------------------------------------
(* C4 *)

\* C4: T - T[r0] has the shape of T, its row r0 is all zeros and its every
\* row r holds T[r] - T[r0] column by column; the array of the notebook with
\* r0 = 0 gives the displayed result.
C4_RowBroadcast ==
    Subtracted =>
        /\ Out.type = "ndarray"
        /\ Len(Out.values) = Len(A.values)
        /\ \A i \in 1..Len(A.values) :
              /\ Len(Out.values[i]) = Len(A.values[i])
              /\ \A j \in 1..Len(A.values[i]) :
                    /\ Out.values[i][j] = A.values[i][j] - A.values[call.row + 1][j]
                    /\ i = call.row + 1 => Out.values[i][j] = 0
        /\ (A = NotebookArray /\ call.row = 0) =>
              Out.values = <<<<0, 0, 0, 0>>, <<2, 0, -4, 0>>, <<0, 4, -2, -2>>>>

\* a row other than the first subtracted from an array of several rows
C4_Witness ==
    /\ Subtracted /\ call.row = 1 /\ Len(A.values) = 3
    /\ \E j \in 1..Len(A.values[1]) : Out.values[1][j] # 0

----------------------------------------------------------------------------
(* C5 *)

----------------------------------------------------------------------------
(* C6 *)

\* C6 (as stated): an operation between a table and a vector fails with
\* ShapeMismatch and produces no result.
C6_MismatchedRankFails ==
    Subtracted => raised = "ShapeMismatch" /\ Out = NoOut

\* C6 (amended): an operation between a table and one of its rows (rank 2
\* with rank 1) raises nothing and produces a table of the table's shape.
C6_MismatchedRankBroadcasts ==
    Subtracted =>
        /\ raised = "none"
        /\ Out.type = "ndarray"
        /\ Len(Out.values) = Len(A.values)
        /\ \A i \in 1..Len(A.values) : Len(Out.values[i]) = Len(A.values[i])

\* the notebook's A - A[0]
C6_Witness ==
    /\ Subtracted /\ A = NotebookArray /\ call.row = 0
    /\ raised = "none" /\ Len(Out.values) = 3

----------------------------------------------------------------------------
(* C7 *)

IsValue(x) == x = NaN \/ Len(x) = 1

\* C7: every add of two Series or of two frames, with a numeric fill value
\* or none, raises nothing and yields an entity that has every label of
\* either operand, with a number or the missing marker at every label.
C7_SameRankSucceeds ==
    /\ SeriesAdded =>
         /\ raised = "none" /\ Out.type = "Series"
         /\ Range(A.index) \cup Range(B.index) \subseteq Range(Out.index)
         /\ Len(Out.values) = Len(Out.index)
         /\ \A i \in 1..Len(Out.values) : IsValue(Out.values[i])
    /\ FramesAdded =>
         /\ raised = "none" /\ Out.type = "DataFrame"
         /\ Range(A.index) \cup Range(B.index) \subseteq Range(Out.index)
         /\ Range(A.columns) \cup Range(B.columns) \subseteq Range(Out.columns)
         /\ Len(Out.values) = Len(Out.index)
         /\ \A i \in 1..Len(Out.values) :
              /\ Len(Out.values[i]) = Len(Out.columns)
              /\ \A j \in 1..Len(Out.columns) : IsValue(Out.values[i][j])

\* two Series without a common label added without a fill value
C7_Witness ==
    /\ SeriesAdded /\ ~call.fill_value.given
    /\ Len(A.index) = 1 /\ Len(B.index) = 1
    /\ Range(A.index) \cap Range(B.index) = {}
    /\ Len(Out.index) = 2 /\ raised = "none"

----------------------------------------------------------------------------
(* C8 *)

----------------------------------------------------------------------------
(* C9 *)

\* C9 (as stated): on operands with the same labels in the same order the
\* result has those labels, holds the sum where both inputs are numbers and
\* is missing exactly where at least one input is missing, with or without
\* a fill value.
C9_StoredNaNNeverFilled ==
    (SeriesAdded /\ A.index = B.index) =>
        /\ Out.index = A.index
        /\ \A i \in 1..Len(A.index) :
              /\ (Out.values[i] = NaN) <=> (A.values[i] = NaN \/ B.values[i] = NaN)
              /\ (A.values[i] # NaN /\ B.values[i] # NaN) =>
                    Out.values[i] = Float(A.values[i][1] + B.values[i][1])

\* C9 (amended): on operands with the same labels in the same order the
\* result has those labels and holds the sum where both inputs are numbers.
\* Without a fill value it is missing exactly where at least one input is
\* missing.  With a fill value f a missing value stored on one side only is
\* replaced by f, so the result is missing exactly where both inputs are.
C9_Elementwise ==
    (SeriesAdded /\ A.index = B.index) =>
        /\ Out.index = A.index
        /\ \A i \in 1..Len(A.index) :
              LET a == astype_float(A.values[i])
                  b == astype_float(B.values[i])
              IN /\ (a # NaN /\ b # NaN) => Out.values[i] = Num(a[1] + b[1])
                 /\ ~FillGiven =>
                      ((Out.values[i] = NaN) <=> (a = NaN \/ b = NaN))
                 /\ FillGiven =>
                      /\ (Out.values[i] = NaN) <=> (a = NaN /\ b = NaN)
                      /\ (a = NaN /\ b # NaN) => Out.values[i] = Num(f[1] + b[1])
                      /\ (a # NaN /\ b = NaN) => Out.values[i] = Num(a[1] + f[1])

\* same index, a fill value, and a missing value stored in B only
C9_Witness ==
    /\ SeriesAdded /\ FillGiven
    /\ A.index = B.index /\ Len(A.index) = 2
    /\ A.values[1] # NaN /\ B.values[1] = NaN /\ Out.values[1] # NaN
    /\ A.values[2] = NaN /\ B.values[2] = NaN /\ Out.values[2] = NaN

----------------------------------------------------------------------------
(* C10 *)

InFrame(df, r, c) == Has(df.index, r) /\ Has(df.columns, c)
OutCells == {<<r, c>> : r \in Range(Out.index), c \in Range(Out.columns)}
\* the frame big has every row label and every column label of the frame small
Covers(big, small) ==
    /\ Range(small.index) \subseteq Range(big.index)
    /\ Range(small.columns) \subseteq Range(big.columns)

\* C10 (as stated): with a fill value f, a cell of the result that neither
\* frame has holds f itself.
C10_BothMissingHoldsFill ==
    (FramesAdded /\ FillGiven) =>
        \A rc \in OutCells :
            (~InFrame(A, rc[1], rc[2]) /\ ~InFrame(B, rc[1], rc[2])) =>
                StoredCell(Out, rc[1], rc[2]) = f

\* C10 (amended): with a fill value f, a cell of the result that neither
\* frame has is missing; a cell that one frame has holds that value + f and
\* a cell both have holds the sum; so when one frame has every label of the
\* other the result has no missing value.
C10_FrameFill ==
    (FramesAdded /\ FillGiven) =>
        /\ \A rc \in OutCells :
              LET inA == InFrame(A, rc[1], rc[2])
                  inB == InFrame(B, rc[1], rc[2])
                  out == StoredCell(Out, rc[1], rc[2])
              IN /\ (inA /\ inB) => out = Plus(Cell(A, rc[1], rc[2]), Cell(B, rc[1], rc[2]))
                 /\ (inA /\ ~inB) => out = Plus(Cell(A, rc[1], rc[2]), f)
                 /\ (~inA /\ inB) => out = Plus(f, Cell(B, rc[1], rc[2]))
                 /\ (~inA /\ ~inB) => out = NaN
        /\ (Covers(B, A) \/ Covers(A, B)) =>
              \A rc \in OutCells : StoredCell(Out, rc[1], rc[2]) # NaN

\* a row only A has and a column only B has, added with a fill value
C10_Witness ==
    /\ FramesAdded /\ FillGiven
    /\ \E rc \in OutCells :
          /\ Has(A.index, rc[1]) /\ ~Has(B.index, rc[1])
          /\ ~Has(A.columns, rc[2]) /\ Has(B.columns, rc[2])
          /\ StoredCell(Out, rc[1], rc[2]) = NaN
====
